---- MODULE Spec2Model ----
(***************************************************************************)
(* Model of the size-targeting compression engine of File-Resizer          *)
(* (file_resizer_backend.py): resize_image, resize_pdf,                    *)
(* _rasterize_to_target and _get_compressed_jpeg_bytes.                    *)
(*                                                                         *)
(* Under Spec one behaviour is one engine call, stepped statement by       *)
(* statement.  File sizes are kept in bytes; the code compares             *)
(* bytes / 1024 with target_kb.  What an encoder or a PDF save produces is *)
(* not decided by the engine: each encode / save draws its size from       *)
(* SizeSet.  An operation of the operating system or of a library that can *)
(* raise may fail, at most MaxFaults times in one call.                    *)
(*                                                                         *)
(* FairImageSpec is the resize_image part of Spec under weak fairness, for *)
(* termination.  ConcSpec runs two engine calls in two threads over one    *)
(* file system, with paths kept as names, for interference between calls.  *)
(* ShellSpec is the UI shell (file_resizer_app.py): the user's clicks,     *)
(* the worker threads it starts and the delivery of their signals, with    *)
(* each engine call taken as one step; FairShellSpec adds weak fairness of *)
(* the threads and of the delivery.                                        *)
(***************************************************************************)
EXTENDS Integers, Sequences, FiniteSets, TLC

\* ------------------------------------------------------------------ bounds
MaxDim == 4
MaxRatio == 3
MaxSizeUnits == 3
MaxTargetKB == 1
MaxPages == 1
MaxImages == 2
MaxFaults == 1
MaxFiles == 1
MaxWorkers == 2

\* ------------------------------------------------------- program constants
KB == 1024
InitialQuality == 95
QualityFloor == 10
CoarseFloor == 60
QualityStep == 5
QLow == 30
QHigh == 99
\* float("inf"), the initial best_size
INF == -1
\* the size of a path at which os.path.exists is False
NoFile == -1
\* the path the caller supplies; the trial path of quality q is the path q
output_path == 0

\* Python's None (and the empty tuple): both are falsy
None == << >>

QRange == QLow..QHigh
Paths == {output_path} \cup QRange
\* sizes an encoder or a save can produce: multiples of half a kilobyte
SizeSet == {k * (KB \div 2) : k \in 1..MaxSizeUnits}
TargetSet == 0..MaxTargetKB
\* (w, h) as typed into the shell's two fields, or None
RatioSet == {None} \cup {<<w, h>> : w \in 0..MaxRatio, h \in 0..MaxRatio}

Abs(x) == IF x < 0 THEN -x ELSE x

\* ------------------------------------------------------------ pure helpers
\* temp_path = output_path + f".q{mid}.tmp"
TempPathIsOutputPath(mid) == output_path
TempPath(mid) == mid

\* img.format of a source image: Pillow's name of the file format
Formats == {"JPEG", "PNG", "GIF"}

\* img_format = img.format if img.format in ['JPEG', 'PNG'] else 'JPEG'
ImgFormat(format) == IF format \in {"JPEG", "PNG"} THEN format ELSE "JPEG"

\* save_format = 'JPEG' if img_format != 'PNG' else 'PNG'
SaveFormatAlwaysJpeg(img_format) == "JPEG"
SaveFormat(img_format) == IF img_format # "PNG" THEN "JPEG" ELSE "PNG"

\* int(original_width * (ratio_h / ratio_w)): truncation of a positive product
\* (the float product and the exact quotient agree for the widths modelled)
NewHeightFromHeight(width, height, ratio_w, ratio_h) == (height * ratio_h) \div ratio_w
NewHeight(width, height, ratio_w, ratio_h) == (width * ratio_h) \div ratio_w

\* int(current_width * 0.9)
ShrinkRounded(x) == (x * 9 + 5) \div 10
Shrink(x) == (x * 9) \div 10

\* if quality > 60: the quality is lowered, else the dimensions are
CoarsePhaseToFloor(q) == q > QualityFloor
CoarsePhase(q) == q > CoarseFloor

\* current_size_kb <= target_kb or quality <= 10
StopDescentAtCoarseFloor(size, quality, target) ==
    size <= target * KB \/ quality <= CoarseFloor
StopDescentStrict(size, quality, target) ==
    size < target * KB \/ quality <= QualityFloor
StopDescent(size, quality, target) ==
    size <= target * KB \/ quality <= QualityFloor

\* current_width == 0 or current_height == 0
DimensionGone(w, h) == w = 0 \/ h = 0

\* current_size_kb <= target_kb (line 235), sizes in bytes
Pass1FitsNever(size, target) == FALSE
Pass1FitsAlways(size, target) == TRUE
Pass1Fits(size, target) == size <= target * KB

\* while low <= high
LoopCondStrict(lo, hi) == lo < hi
LoopCond(lo, hi) == lo <= hi

\* mid = (low + high) // 2
Mid(lo, hi) == (lo + hi) \div 2

\* size_kb <= target_kb (line 94), sizes in bytes
FeasibleAlways(size, target) == TRUE
Feasible(size, target) == size <= target * KB

\* low = mid + 1 (line 99) and high = mid - 1 (line 102)
NextLowKeep(m) == m
NextLow(m) == m + 1
NextHighKeep(m) == m
NextHigh(m) == m - 1

\* abs(size_kb - target_kb) < abs(best_size - target_kb), best_size possibly inf
CloserAlways(size, best, target) == TRUE
Closer(size, best, target) ==
    best = INF \/ Abs(size - target * KB) < Abs(best - target * KB)

\* the call of _rasterize_to_target (line 246) stands inside the try of line 205
RasterizeCallUnguarded == FALSE
RasterizeCallGuarded == TRUE

\* the body of Pass 1's image loop stands inside try / except Exception:
\* continue (lines 215-226)
InnerTryAbsent == FALSE
InnerTryCatches == TRUE

\* the os.remove of the helper's temporary file stands in a finally clause
\* (line 35): it runs whether or not the try body raised
JpegCleanupAfterRead == FALSE
JpegCleanupInFinally == TRUE

\* ---------------------------------------------------------------- state
VARIABLES
    pc,             \* the statement the call is at
    fn,             \* "resize_image" or "resize_pdf" once called
    result,         \* "none" while running, then "True", "False" or "raised"
    disk,           \* path -> size in bytes, NoFile where nothing exists
    jpg_files,      \* number of temp_comp_img_<uuid>.jpg files on disk
    faults,         \* operations that have failed in this call
    rm_failed,      \* an os.remove has failed in this call
    pre_out,        \* disk[output_path] when the call started
    written,        \* the call has created or replaced the file at output_path
    src_ok,         \* the source file can be opened and parsed
    target_kb,
    aspect_ratio,
    orig_size,      \* img.size of the source image
    src_format,     \* img.format of the source image
    img_format,     \* img_format of resize_image, "none" before line 151
    save_format,    \* format= of the last img.save, "none" before the first
    out_format,     \* format of the bytes resize_image wrote at output_path
    img,            \* img.size of the working image
    cur,            \* <<current_width, current_height>>
    quality,
    buffer,         \* size of the bytes last encoded in memory
    trials,         \* encodings made so far by resize_image
    shrinks,        \* dimension shrinks made so far by resize_image
    feasible_seen,  \* some encoding of resize_image had size <= target_kb
    npages,         \* len(doc) of the source PDF
    doc_images,     \* Pass 1's doc: images per page; << >> when not open
    page_num,       \* loop variable of the page loops (lines 71 and 210)
    img_i,          \* images of the current page already visited (line 212)
    jpg_ret,        \* caller of _get_compressed_jpeg_bytes: "p1" or "rz"
    jpg_exists,     \* temp_filename of the running helper exists
    jpg_exc,        \* an exception is in flight in the helper
    p1_log,         \* Pass 1's open document, per image visited: "updated", or
                    \* the step whose failure made the loop skip the image
    pass1_size,     \* current_size_kb of resize_pdf: size of the document
                    \* Pass 1 saved, NoFile before that and once os.remove
                    \* took the document away (the code never reads it again)
    rz_called,      \* _rasterize_to_target has been called
    measured,       \* <<quality, size>> of every trial document saved so far
    low,
    high,
    mid,
    best_size,
    best_file_to_keep,
    tested_temp_files,
    doc_original_open,
    rz_ret,         \* what _rasterize_to_target does after its finally clause
    calls,          \* two concurrent calls: thread -> the call's arguments and locals
    files,          \* the files those two calls see: <<path, creator, size>>
    foreign,        \* a call has overwritten, read or deleted a file the other created
    current_file_path,  \* the shell's selected source file, None when there is none
    resized_file_path,  \* the output file the shell refers to, None when there is none
    current_file_type,  \* "image" or "pdf"
    resize_btn,     \* the Resize button is enabled
    download_btn,   \* the Download button is enabled
    workers,        \* the ResizerWorker threads started so far, in order
    signals,        \* finished signals emitted and not yet delivered to the shell
    out_files,      \* the output paths of the workers at which a file exists
    alive,          \* the shell's process is running
    clean_failed    \* an os.remove of clean_temp_file has raised

callvars == <<fn, src_ok, target_kb, aspect_ratio, orig_size, src_format, npages>>
imgvars == <<img, cur, quality, buffer, trials, shrinks, feasible_seen,
             img_format, save_format, out_format>>
p1vars == <<doc_images, img_i, p1_log, pass1_size>>
jpgvars == <<jpg_ret, jpg_exists, jpg_exc>>
rzvars == <<rz_called, low, high, mid, best_size, best_file_to_keep,
            tested_temp_files, doc_original_open, rz_ret>>
onecall == <<pc, result, disk, jpg_files, faults, rm_failed, pre_out, written,
             callvars, imgvars, p1vars, page_num, jpgvars, measured, rzvars>>
concvars == <<calls, files, foreign>>
shellvars == <<current_file_path, resized_file_path, current_file_type, resize_btn,
               download_btn, workers, signals, out_files, alive, clean_failed>>
vars == <<onecall, concvars, shellvars>>

\* the two threads of the concurrent specification
Threads == {1, 2}

\* a thread that has not called the engine yet
IdleCall ==
    [pc |-> "idle", fn |-> "none", output_path |-> << >>, target_kb |-> 0,
     fits |-> FALSE, step |-> QLow, jpg_ret |-> "none", low |-> 0, high |-> 0,
     mid |-> 0, best_size |-> INF, best_file_to_keep |-> None,
     tested_temp_files |-> << >>, doc_original_open |-> FALSE,
     rz_ret |-> "none", result |-> "none"]

CanFail == faults < MaxFaults

\* a file already at output_path before the call; its size is never read
PreSet == {NoFile, KB}

Init ==
    /\ pc = "idle"
    /\ fn = "none"
    /\ result = "none"
    /\ disk = [p \in Paths |-> NoFile]
    /\ pre_out = NoFile
    /\ jpg_files = 0
    /\ faults = 0
    /\ rm_failed = FALSE
    /\ written = FALSE
    /\ src_ok = TRUE
    /\ target_kb = 0
    /\ aspect_ratio = None
    /\ orig_size = <<0, 0>>
    /\ src_format = "none"
    /\ img_format = "none"
    /\ save_format = "none"
    /\ out_format = "none"
    /\ img = <<0, 0>>
    /\ cur = <<0, 0>>
    /\ quality = 0
    /\ buffer = 0
    /\ trials = 0
    /\ shrinks = 0
    /\ feasible_seen = FALSE
    /\ npages = 0
    /\ doc_images = << >>
    /\ page_num = 0
    /\ img_i = 0
    /\ p1_log = << >>
    /\ jpg_ret = "none"
    /\ jpg_exists = FALSE
    /\ jpg_exc = FALSE
    /\ pass1_size = NoFile
    /\ rz_called = FALSE
    /\ measured = {}
    /\ low = 0
    /\ high = 0
    /\ mid = 0
    /\ best_size = INF
    /\ best_file_to_keep = None
    /\ tested_temp_files = << >>
    /\ doc_original_open = FALSE
    /\ rz_ret = "none"
    /\ calls = [t \in Threads |-> IdleCall]
    /\ files = {}
    /\ foreign = FALSE
    /\ current_file_path = None
    /\ resized_file_path = None
    /\ current_file_type = "image"
    /\ resize_btn = TRUE
    /\ download_btn = FALSE
    /\ workers = << >>
    /\ signals = << >>
    /\ out_files = {}
    /\ alive = TRUE
    /\ clean_failed = FALSE

\* ------------------------------------------------------------ resize_image
\* the caller invokes resize_image(input_path, output_path, target_kb, aspect_ratio)
CallResizeImage ==
    /\ pc = "idle"
    /\ \E t \in TargetSet, r \in RatioSet, w \in 1..MaxDim, h \in 1..MaxDim,
          f \in Formats, ok \in BOOLEAN :
          /\ target_kb' = t
          /\ aspect_ratio' = r
          /\ orig_size' = <<w, h>>
          /\ src_format' = f
          /\ src_ok' = ok
    /\ \E s \in PreSet :
          /\ disk' = [disk EXCEPT ![output_path] = s]
          /\ pre_out' = s
    /\ fn' = "resize_image"
    /\ pc' = "img_open"
    /\ UNCHANGED <<concvars, shellvars, result, jpg_files, faults, rm_failed, written,
                   npages, imgvars, p1vars, page_num, jpgvars, measured, rzvars>>

\* img = Image.open(input_path); img_format = ...;
\* original_width, original_height = img.size
ImageOpen ==
    /\ pc = "img_open"
    /\ IF src_ok
         THEN /\ img' = orig_size
              /\ img_format' = ImgFormat(src_format)
              /\ pc' = "img_aspect"
         ELSE /\ pc' = "img_except"
              /\ UNCHANGED <<img, img_format>>
    /\ UNCHANGED <<concvars, shellvars, result, disk, jpg_files, faults, rm_failed, pre_out, written,
                   callvars, cur, quality, buffer, trials, shrinks, feasible_seen,
                   save_format, out_format, p1vars, page_num, jpgvars, measured, rzvars>>

\* if aspect_ratio: ... img = img.resize((original_width, new_height), LANCZOS)
\* then current_width, current_height = img.size; quality = 95.
\* Image.resize raises ValueError when a side is below 1.
ImageAspect ==
    /\ pc = "img_aspect"
    /\ LET applies == /\ aspect_ratio # None
                      /\ aspect_ratio[1] > 0
                      /\ aspect_ratio[2] > 0
           new_height == NewHeight(img[1], img[2], aspect_ratio[1], aspect_ratio[2])
           resized == IF applies THEN <<img[1], new_height>> ELSE img
       IN IF applies /\ new_height < 1
            THEN /\ pc' = "img_except"
                 /\ UNCHANGED <<img, cur, quality>>
            ELSE /\ img' = resized
                 /\ cur' = resized
                 /\ quality' = InitialQuality
                 /\ pc' = "img_encode"
    /\ UNCHANGED <<concvars, shellvars, result, disk, jpg_files, faults, rm_failed, pre_out, written,
                   callvars, buffer, trials, shrinks, feasible_seen,
                   img_format, save_format, out_format,
                   p1vars, page_num, jpgvars, measured, rzvars>>

\* buffer = BytesIO(); save_format = 'JPEG' if img_format != 'PNG' else 'PNG'
\* img.save(buffer, format=save_format, quality=quality, optimize=True)
ImageEncode ==
    /\ pc = "img_encode"
    /\ save_format' = SaveFormat(img_format)
    /\ \/ /\ \E s \in SizeSet :
                /\ buffer' = s
                /\ feasible_seen' = (feasible_seen \/ s <= target_kb * KB)
          /\ trials' = trials + 1
          /\ pc' = "img_check"
          /\ UNCHANGED faults
       \/ /\ CanFail
          /\ faults' = faults + 1
          /\ pc' = "img_except"
          /\ UNCHANGED <<buffer, trials, feasible_seen>>
    /\ UNCHANGED <<concvars, shellvars, result, disk, jpg_files, rm_failed, pre_out, written, callvars,
                   img, cur, quality, shrinks, img_format, out_format, p1vars, page_num,
                   jpgvars, measured, rzvars>>

\* the if / else of the loop body after the encode (lines 170-182); when the
\* loop goes round, the next iteration's buffer = BytesIO() (line 164)
ImageCheck ==
    /\ pc = "img_check"
    /\ IF StopDescent(buffer, quality, target_kb)
         THEN /\ pc' = "img_write"
              /\ UNCHANGED <<quality, cur, img, shrinks, result, buffer>>
         ELSE IF CoarsePhase(quality)
           THEN /\ quality' = quality - QualityStep
                /\ buffer' = 0
                /\ pc' = "img_encode"
                /\ UNCHANGED <<cur, img, shrinks, result>>
           ELSE LET w == Shrink(cur[1])
                    h == Shrink(cur[2])
                IN /\ cur' = <<w, h>>
                   /\ IF DimensionGone(w, h)
                        THEN /\ result' = "False"
                             /\ pc' = "done"
                             /\ UNCHANGED <<img, shrinks, buffer>>
                        ELSE /\ img' = <<w, h>>
                             /\ shrinks' = shrinks + 1
                             /\ buffer' = 0
                             /\ pc' = "img_encode"
                             /\ UNCHANGED result
                   /\ UNCHANGED quality
    /\ UNCHANGED <<concvars, shellvars, disk, jpg_files, faults, rm_failed, pre_out, written, callvars,
                   trials, feasible_seen, img_format, save_format, out_format,
                   p1vars, page_num, jpgvars, measured, rzvars>>

\* with open(output_path, 'wb') as f: f.write(buffer.getvalue()); return True
\* open fails: nothing is created.  write fails: the opened file stays, truncated.
ImageWrite ==
    /\ pc = "img_write"
    /\ \/ /\ disk' = [disk EXCEPT ![output_path] = buffer]
          /\ written' = TRUE
          /\ out_format' = save_format
          /\ result' = "True"
          /\ pc' = "done"
          /\ UNCHANGED faults
       \/ /\ CanFail
          /\ faults' = faults + 1
          /\ pc' = "img_except"
          /\ \/ UNCHANGED <<disk, written>>
             \/ /\ disk' = [disk EXCEPT ![output_path] = 0]
                /\ written' = TRUE
          /\ UNCHANGED <<result, out_format>>
    /\ UNCHANGED <<concvars, shellvars, jpg_files, rm_failed, pre_out, callvars, img, cur, quality,
                   buffer, trials, shrinks, feasible_seen, img_format, save_format,
                   p1vars, page_num, jpgvars, measured, rzvars>>

\* except Exception as e: print(...); return False
ImageExcept ==
    /\ pc = "img_except"
    /\ result' = "False"
    /\ pc' = "done"
    /\ UNCHANGED <<concvars, shellvars, disk, jpg_files, faults, rm_failed, pre_out, written, callvars,
                   imgvars, p1vars, page_num, jpgvars, measured, rzvars>>

\* -------------------------------------------------------------- resize_pdf
\* The size of the document rasterized at quality q and saved is a property of
\* the source document: its size profile.  The profiles modelled are the step
\* functions <<step, below, from>>: size `below` for q < step, `from` for
\* q >= step (constant, non-decreasing or decreasing in q).  The engine learns
\* the profile one trial at a time, so a trial's size is drawn among the sizes
\* that some profile agreeing with every size measured so far gives it.
Profiles == {<<q, a, b>> : q \in (QLow + 1)..QHigh, a \in SizeSet, b \in SizeSet}
ProfileSize(e, q) == IF q < e[1] THEN e[2] ELSE e[3]
Agrees(e) == \A m \in measured : ProfileSize(e, m[1]) = m[2]
TrialSizes(q) == {ProfileSize(e, q) : e \in {f \in Profiles : Agrees(f)}}

\* os.path.exists(p)
Exists(p) == disk[p] # NoFile

\* the caller invokes resize_pdf(input_path, output_path, target_kb)
CallResizePdf ==
    /\ pc = "idle"
    /\ \E t \in TargetSet \ {0}, ok \in BOOLEAN :
          /\ target_kb' = t
          /\ src_ok' = ok
          /\ \E n \in 1..MaxPages : npages' = IF ok THEN n ELSE 0
    /\ \E s \in PreSet :
          /\ disk' = [disk EXCEPT ![output_path] = s]
          /\ pre_out' = s
    /\ fn' = "resize_pdf"
    /\ pc' = "p1_open"
    /\ UNCHANGED <<concvars, shellvars, result, jpg_files, faults, rm_failed, written,
                   aspect_ratio, orig_size, src_format, imgvars, p1vars, page_num,
                   jpgvars, measured, rzvars>>

\* doc = fitz.open(input_path); image_quality = 85
\* the parse yields the document's embedded images, page by page
Pass1Open ==
    /\ pc = "p1_open"
    /\ IF src_ok
         THEN /\ \E im \in [1..npages -> 0..MaxImages] : doc_images' = im
              /\ page_num' = 0
              /\ img_i' = 0
              /\ pc' = "p1_image"
         ELSE /\ pc' = "pdf_except"
              /\ UNCHANGED <<doc_images, page_num, img_i>>
    /\ UNCHANGED <<concvars, shellvars, result, disk, jpg_files, faults, rm_failed, pre_out, written,
                   callvars, imgvars, p1_log, pass1_size, jpgvars, measured, rzvars>>

\* the two for loops of Pass 1 up to pix = fitz.Pixmap(doc, xref) and the
\* conversion to RGB; a failure there is caught by the inner except (continue)
Pass1Image ==
    /\ pc = "p1_image"
    /\ IF page_num < npages
         THEN IF img_i < doc_images[page_num + 1]
                THEN \/ /\ pc' = "jpg_save"
                        /\ jpg_ret' = "p1"
                        /\ UNCHANGED <<page_num, img_i, p1_log, faults>>
                     \/ /\ CanFail
                        /\ faults' = faults + 1
                        /\ IF InnerTryCatches
                             THEN /\ img_i' = img_i + 1
                                  /\ p1_log' = Append(p1_log, "decode_failed")
                                  /\ UNCHANGED pc
                             ELSE /\ pc' = "pdf_except"
                                  /\ UNCHANGED <<img_i, p1_log>>
                        /\ UNCHANGED <<page_num, jpg_ret>>
                ELSE /\ page_num' = page_num + 1
                     /\ img_i' = 0
                     /\ UNCHANGED <<pc, jpg_ret, p1_log, faults>>
         ELSE /\ pc' = "p1_save"
              /\ UNCHANGED <<page_num, img_i, jpg_ret, p1_log, faults>>
    /\ UNCHANGED <<concvars, shellvars, result, disk, jpg_files, rm_failed, pre_out, written, callvars,
                   imgvars, doc_images, pass1_size, jpg_exists, jpg_exc, measured,
                   rzvars>>

\* doc.update_image(xref, img_bytes); pix = None -- a failure is caught by the
\* inner except, and the loop goes on with the next image either way
Pass1Update ==
    /\ pc = "p1_update"
    /\ \/ /\ p1_log' = Append(p1_log, "updated")
          /\ img_i' = img_i + 1
          /\ pc' = "p1_image"
          /\ UNCHANGED faults
       \/ /\ CanFail
          /\ faults' = faults + 1
          /\ IF InnerTryCatches
               THEN /\ p1_log' = Append(p1_log, "update_failed")
                    /\ img_i' = img_i + 1
                    /\ pc' = "p1_image"
               ELSE /\ pc' = "pdf_except"
                    /\ UNCHANGED <<p1_log, img_i>>
    /\ UNCHANGED <<concvars, shellvars, result, disk, jpg_files, rm_failed, pre_out, written, callvars,
                   imgvars, doc_images, pass1_size, page_num, jpgvars, measured,
                   rzvars>>

\* doc.save(output_path, garbage=4, deflate=True, clean=True); doc.close()
\* a failing save may leave a truncated file behind
Pass1Save ==
    /\ pc = "p1_save"
    /\ \/ /\ \E s \in SizeSet :
                /\ disk' = [disk EXCEPT ![output_path] = s]
                /\ pass1_size' = s
          /\ written' = TRUE
          /\ doc_images' = << >>
          /\ p1_log' = << >>
          /\ pc' = "p1_measure"
          /\ UNCHANGED faults
       \/ /\ CanFail
          /\ faults' = faults + 1
          /\ pc' = "pdf_except"
          /\ \/ UNCHANGED <<disk, written>>
             \/ /\ disk' = [disk EXCEPT ![output_path] = 0]
                /\ written' = TRUE
          /\ UNCHANGED <<doc_images, p1_log, pass1_size>>
    /\ UNCHANGED <<concvars, shellvars, result, jpg_files, rm_failed, pre_out, callvars, imgvars, img_i,
                   page_num, jpgvars, measured, rzvars>>

\* current_size_kb = os.path.getsize(output_path) / 1024
\* if current_size_kb <= target_kb: return True
Pass1Measure ==
    /\ pc = "p1_measure"
    /\ IF Pass1Fits(disk[output_path], target_kb)
         THEN /\ result' = "True"
              /\ pc' = "done"
         ELSE /\ pc' = "p1_remove"
              /\ UNCHANGED result
    /\ UNCHANGED <<concvars, shellvars, disk, jpg_files, faults, rm_failed, pre_out, written, callvars,
                   imgvars, p1vars, page_num, jpgvars, measured, rzvars>>

\* if os.path.exists(output_path): os.remove(output_path)
Pass1Remove ==
    /\ pc = "p1_remove"
    /\ \/ /\ disk' = [disk EXCEPT ![output_path] = NoFile]
          /\ pass1_size' = NoFile
          /\ pc' = "rz_open"
          /\ UNCHANGED <<faults, rm_failed>>
       \/ /\ Exists(output_path)
          /\ CanFail
          /\ faults' = faults + 1
          /\ rm_failed' = TRUE
          /\ pc' = "pdf_except"
          /\ UNCHANGED <<disk, pass1_size>>
    /\ UNCHANGED <<concvars, shellvars, result, jpg_files, pre_out, written, callvars, imgvars,
                   doc_images, img_i, p1_log, page_num, jpgvars, measured, rzvars>>

\* except Exception as e: ... if os.path.exists(output_path): try: os.remove(...)
\* except: pass ... return False
PdfExceptNoCleanup ==
    /\ pc = "pdf_except"
    /\ result' = "False"
    /\ pc' = "done"
    /\ UNCHANGED <<concvars, shellvars, disk, jpg_files, faults, rm_failed, pre_out, written, callvars,
                   imgvars, p1vars, page_num, jpgvars, measured, rzvars>>
PdfExcept ==
    /\ pc = "pdf_except"
    /\ \/ /\ disk' = [disk EXCEPT ![output_path] = NoFile]
          /\ UNCHANGED <<faults, rm_failed>>
       \/ /\ Exists(output_path)
          /\ CanFail
          /\ faults' = faults + 1
          /\ rm_failed' = TRUE
          /\ UNCHANGED disk
    /\ result' = "False"
    /\ pc' = "done"
    /\ UNCHANGED <<concvars, shellvars, jpg_files, pre_out, written, callvars, imgvars, p1vars, page_num,
                   jpgvars, measured, rzvars>>

\* ---------------------------------------------- _get_compressed_jpeg_bytes
\* temp_filename = f"temp_comp_img_{uuid.uuid4()}.jpg"
\* pix.save(temp_filename, "jpeg", jpg_quality=quality)
\* a failing save may or may not have created the file
JpegSave ==
    /\ pc = "jpg_save"
    /\ \/ /\ jpg_files' = jpg_files + 1
          /\ jpg_exists' = TRUE
          /\ jpg_exc' = FALSE
          /\ pc' = "jpg_read"
          /\ UNCHANGED faults
       \/ /\ CanFail
          /\ faults' = faults + 1
          /\ jpg_exc' = TRUE
          /\ pc' = "jpg_finally"
          /\ \/ /\ jpg_exists' = FALSE
                /\ UNCHANGED jpg_files
             \/ /\ jpg_exists' = TRUE
                /\ jpg_files' = jpg_files + 1
    /\ UNCHANGED <<concvars, shellvars, result, disk, rm_failed, pre_out, written, callvars, imgvars,
                   p1vars, page_num, jpg_ret, measured, rzvars>>

\* with open(temp_filename, "rb") as f: img_bytes = f.read(); return img_bytes
JpegRead ==
    /\ pc = "jpg_read"
    /\ \/ UNCHANGED <<faults, jpg_exc>>
       \/ /\ CanFail
          /\ faults' = faults + 1
          /\ jpg_exc' = TRUE
    /\ pc' = "jpg_finally"
    /\ UNCHANGED <<concvars, shellvars, result, disk, jpg_files, rm_failed, pre_out, written, callvars,
                   imgvars, p1vars, page_num, jpg_ret, jpg_exists, measured, rzvars>>

\* finally: if os.path.exists(temp_filename): os.remove(temp_filename)
\* then the helper returns the bytes or lets its exception go to the caller:
\* Pass 1 skips the image (inner except), Pass 2 enters the except of line 121
JpegFinally ==
    /\ pc = "jpg_finally"
    /\ \E removed \in BOOLEAN :
          LET attempt == jpg_exists /\ (JpegCleanupInFinally \/ ~jpg_exc)
              raised == jpg_exc \/ ~removed
          IN /\ removed \/ (attempt /\ CanFail)
             /\ IF attempt /\ removed
                  THEN jpg_files' = jpg_files - 1
                  ELSE UNCHANGED jpg_files
             /\ IF removed
                  THEN UNCHANGED <<faults, rm_failed>>
                  ELSE /\ faults' = faults + 1
                       /\ rm_failed' = TRUE
             /\ IF jpg_ret = "p1"
                  THEN IF raised
                         THEN IF InnerTryCatches
                                THEN /\ pc' = "p1_image"
                                     /\ img_i' = img_i + 1
                                     /\ p1_log' = Append(p1_log, "encode_failed")
                                ELSE /\ pc' = "pdf_except"
                                     /\ UNCHANGED <<img_i, p1_log>>
                         ELSE /\ pc' = "p1_update"
                              /\ UNCHANGED <<img_i, p1_log>>
                  ELSE /\ pc' = IF raised THEN "rz_except" ELSE "rz_insert"
                       /\ UNCHANGED <<img_i, p1_log>>
    /\ jpg_exists' = FALSE
    /\ jpg_exc' = FALSE
    /\ jpg_ret' = "none"
    /\ UNCHANGED <<concvars, shellvars, result, disk, pre_out, written, callvars, imgvars, doc_images,
                   pass1_size, page_num, measured, rzvars>>

\* ---------------------------------------------------- _rasterize_to_target
\* doc_original = fitz.open(input_path); low, high = 30, 99; best_size = inf;
\* best_file_to_keep = None; tested_temp_files = []
\* These lines stand before the try: a failure goes to the caller.
RzOpen ==
    /\ pc = "rz_open"
    /\ rz_called' = TRUE
    /\ \/ /\ low' = QLow
          /\ high' = QHigh
          /\ best_size' = INF
          /\ best_file_to_keep' = None
          /\ tested_temp_files' = << >>
          /\ doc_original_open' = TRUE
          /\ pc' = "rz_loop"
          /\ UNCHANGED <<faults, result>>
       \/ /\ CanFail
          /\ faults' = faults + 1
          /\ IF RasterizeCallGuarded
               THEN /\ pc' = "pdf_except"
                    /\ UNCHANGED result
               ELSE /\ pc' = "done"
                    /\ result' = "raised"
          /\ UNCHANGED <<low, high, best_size, best_file_to_keep,
                         tested_temp_files, doc_original_open>>
    /\ UNCHANGED <<concvars, shellvars, disk, jpg_files, rm_failed, pre_out, written, callvars, imgvars,
                   p1vars, page_num, jpgvars, measured, mid, rz_ret>>

\* while low <= high: mid = (low + high) // 2; temp_path = ...;
\* tested_temp_files.append(temp_path); doc_new = fitz.open()
RzLoop ==
    /\ pc = "rz_loop"
    /\ IF LoopCond(low, high)
         THEN /\ mid' = Mid(low, high)
              /\ tested_temp_files' = Append(tested_temp_files, TempPath(Mid(low, high)))
              /\ page_num' = 0
              /\ pc' = "rz_page"
         ELSE /\ pc' = "rz_close"
              /\ UNCHANGED <<mid, tested_temp_files, page_num>>
    /\ UNCHANGED <<concvars, shellvars, result, disk, jpg_files, faults, rm_failed, pre_out, written,
                   callvars, imgvars, p1vars, jpgvars, measured, rz_called, low, high,
                   best_size, best_file_to_keep, doc_original_open, rz_ret>>

\* for page_num in range(len(doc_original)): page = ...; pix = page.get_pixmap(...)
\* img_bytes = _get_compressed_jpeg_bytes(pix, mid)
RzPage ==
    /\ pc = "rz_page"
    /\ IF page_num < npages
         THEN \/ /\ pc' = "jpg_save"
                 /\ jpg_ret' = "rz"
                 /\ UNCHANGED faults
              \/ /\ CanFail
                 /\ faults' = faults + 1
                 /\ pc' = "rz_except"
                 /\ UNCHANGED jpg_ret
         ELSE /\ pc' = "rz_save"
              /\ UNCHANGED <<jpg_ret, faults>>
    /\ UNCHANGED <<concvars, shellvars, result, disk, jpg_files, rm_failed, pre_out, written, callvars,
                   imgvars, p1vars, page_num, jpg_exists, jpg_exc, measured, rzvars>>

\* new_page = doc_new.new_page(...); new_page.insert_image(new_page.rect, stream=img_bytes)
RzInsert ==
    /\ pc = "rz_insert"
    /\ page_num' = page_num + 1
    /\ pc' = "rz_page"
    /\ UNCHANGED <<concvars, shellvars, result, disk, jpg_files, faults, rm_failed, pre_out, written,
                   callvars, imgvars, p1vars, jpgvars, measured, rzvars>>

\* doc_new.save(temp_path, garbage=4, deflate=True, clean=True); doc_new.close()
RzSave ==
    /\ pc = "rz_save"
    /\ \/ /\ \E s \in TrialSizes(mid) :
                /\ disk' = [disk EXCEPT ![TempPath(mid)] = s]
                /\ measured' = measured \cup {<<mid, s>>}
          /\ pc' = "rz_measure"
          /\ UNCHANGED faults
       \/ /\ CanFail
          /\ faults' = faults + 1
          /\ pc' = "rz_except"
          /\ \/ UNCHANGED disk
             \/ disk' = [disk EXCEPT ![TempPath(mid)] = 0]
          /\ UNCHANGED measured
    /\ UNCHANGED <<concvars, shellvars, result, jpg_files, rm_failed, pre_out, written, callvars, imgvars,
                   p1vars, page_num, jpgvars, rzvars>>

\* size_kb = os.path.getsize(temp_path) / 1024 and the if / else of lines 94-102
RzMeasure ==
    /\ pc = "rz_measure"
    /\ LET size == disk[TempPath(mid)]
       IN IF Feasible(size, target_kb)
            THEN /\ IF Closer(size, best_size, target_kb)
                      THEN /\ best_size' = size
                           /\ best_file_to_keep' = <<TempPath(mid)>>
                      ELSE UNCHANGED <<best_size, best_file_to_keep>>
                 /\ low' = NextLow(mid)
                 /\ UNCHANGED high
            ELSE /\ high' = NextHigh(mid)
                 /\ UNCHANGED <<low, best_size, best_file_to_keep>>
    /\ pc' = "rz_loop"
    /\ UNCHANGED <<concvars, shellvars, result, disk, jpg_files, faults, rm_failed, pre_out, written,
                   callvars, imgvars, p1vars, page_num, jpgvars, measured, rz_called,
                   mid, tested_temp_files, doc_original_open, rz_ret>>

\* doc_original.close(); if best_file_to_keep: ... else: return False
RzClose ==
    /\ pc = "rz_close"
    /\ doc_original_open' = FALSE
    /\ IF best_file_to_keep # None
         THEN /\ pc' = "rz_cleanup"
              /\ UNCHANGED rz_ret
         ELSE /\ rz_ret' = "False"
              /\ pc' = "rz_finally"
    /\ UNCHANGED <<concvars, shellvars, result, disk, jpg_files, faults, rm_failed, pre_out, written,
                   callvars, imgvars, p1vars, page_num, jpgvars, measured, rz_called,
                   low, high, mid, best_size, best_file_to_keep, tested_temp_files>>

\* the files of tested_temp_files[1..n] the cleanup loop of lines 109-111 removes
OtherTrials(n) ==
    {tested_temp_files[i] : i \in 1..n} \ {best_file_to_keep[1]}

\* for test_file in tested_temp_files: if test_file != best_file_to_keep and
\* os.path.exists(test_file): os.remove(test_file)
\* An os.remove that fails raises: the files before it are gone, the rest stay.
RzCleanup ==
    /\ pc = "rz_cleanup"
    /\ \/ /\ disk' = [p \in Paths |->
                        IF p \in OtherTrials(Len(tested_temp_files))
                          THEN NoFile ELSE disk[p]]
          /\ pc' = "rz_rename"
          /\ UNCHANGED <<faults, rm_failed>>
       \/ /\ CanFail
          /\ \E i \in 1..Len(tested_temp_files) :
                /\ tested_temp_files[i] # best_file_to_keep[1]
                /\ Exists(tested_temp_files[i])
                /\ disk' = [p \in Paths |->
                              IF p \in OtherTrials(i - 1) THEN NoFile ELSE disk[p]]
          /\ faults' = faults + 1
          /\ rm_failed' = TRUE
          /\ pc' = "rz_except"
    /\ UNCHANGED <<concvars, shellvars, result, jpg_files, pre_out, written, callvars, imgvars, p1vars,
                   page_num, jpgvars, measured, rzvars>>

\* os.rename(best_file_to_keep, output_path); print(...); return True
RzRename ==
    /\ pc = "rz_rename"
    /\ \/ /\ disk' = [disk EXCEPT ![output_path] = disk[best_file_to_keep[1]],
                                  ![best_file_to_keep[1]] = NoFile]
          /\ written' = TRUE
          /\ rz_ret' = "True"
          /\ pc' = "rz_finally"
          /\ UNCHANGED faults
       \/ /\ CanFail
          /\ faults' = faults + 1
          /\ pc' = "rz_except"
          /\ UNCHANGED <<disk, written, rz_ret>>
    /\ UNCHANGED <<concvars, shellvars, result, jpg_files, rm_failed, pre_out, callvars, imgvars, p1vars,
                   page_num, jpgvars, measured, rz_called, low, high, mid, best_size,
                   best_file_to_keep, tested_temp_files, doc_original_open>>

\* except Exception as e: print(...); doc_original.close(); return False
\* Document.close() raises ValueError on a document that is already closed.
RzExcept ==
    /\ pc = "rz_except"
    /\ rz_ret' = IF doc_original_open THEN "False" ELSE "raise"
    /\ doc_original_open' = FALSE
    /\ pc' = "rz_finally"
    /\ UNCHANGED <<concvars, shellvars, result, disk, jpg_files, faults, rm_failed, pre_out, written,
                   callvars, imgvars, p1vars, page_num, jpgvars, measured, rz_called,
                   low, high, mid, best_size, best_file_to_keep, tested_temp_files>>

\* finally: for test_file in tested_temp_files: if os.path.exists(test_file) and
\* test_file != output_path: try: os.remove(test_file) except: pass
\* then _rasterize_to_target returns, or its exception reaches resize_pdf, which
\* returns what _rasterize_to_target returned (line 246)
RzFinally ==
    /\ pc = "rz_finally"
    /\ LET present == {p \in {tested_temp_files[i] : i \in 1..Len(tested_temp_files)} :
                          Exists(p) /\ p # output_path}
       IN \E stuck \in SUBSET present :
             /\ Cardinality(stuck) <= MaxFaults - faults
             /\ disk' = [p \in Paths |->
                           IF p \in present \ stuck THEN NoFile ELSE disk[p]]
             /\ faults' = faults + Cardinality(stuck)
             /\ rm_failed' = (rm_failed \/ stuck # {})
    /\ IF rz_ret = "raise"
         THEN IF RasterizeCallGuarded
                THEN /\ pc' = "pdf_except"
                     /\ UNCHANGED result
                ELSE /\ pc' = "done"
                     /\ result' = "raised"
         ELSE /\ pc' = "done"
              /\ result' = rz_ret
    /\ UNCHANGED <<concvars, shellvars, jpg_files, pre_out, written, callvars, imgvars, p1vars, page_num,
                   jpgvars, measured, rzvars>>

Next ==
    \/ CallResizeImage
    \/ ImageOpen
    \/ ImageAspect
    \/ ImageEncode
    \/ ImageCheck
    \/ ImageWrite
    \/ ImageExcept
    \/ CallResizePdf
    \/ Pass1Open
    \/ Pass1Image
    \/ Pass1Update
    \/ Pass1Save
    \/ Pass1Measure
    \/ Pass1Remove
    \/ PdfExcept
    \/ JpegSave
    \/ JpegRead
    \/ JpegFinally
    \/ RzOpen
    \/ RzLoop
    \/ RzPage
    \/ RzInsert
    \/ RzSave
    \/ RzMeasure
    \/ RzClose
    \/ RzCleanup
    \/ RzRename
    \/ RzExcept
    \/ RzFinally

Spec == Init /\ [][Next]_vars

\* -------------------------------------------------- two concurrent calls
\* Two threads each make one engine call, with different output paths, and
\* their file operations interleave.  A path is a sequence: <<n>> is a name the
\* caller chose, <<n, q>> is that name followed by ".q<q>.tmp", and <<0, t>> is
\* the temp_comp_img_<uuid>.jpg of thread t's call (uuid4: a name no other call
\* has).  Nothing fails here but what the other call causes.  A call's encoder
\* and documents are its own: an image whose descent fits or does not, a Pass-1
\* document that fits or does not, trial documents that are small below the
\* quality `step` and big from it on.
ConcOutputPaths == {<<1>>, <<2>>, <<1, Mid(QLow, QHigh)>>}
ConcSteps == {QLow, Mid(QLow, QHigh) + 1, QHigh + 1}
ConcSmall == KB \div 2
ConcBig == MaxSizeUnits * (KB \div 2)

\* output_path + f".q{mid}.tmp"
ConcTempPath(out, m) == Append(out, m)
\* f"temp_comp_img_{uuid.uuid4()}.jpg"
ConcJpegPath(t) == <<0, t>>

ConcTrialSize(c, q) == IF q < c.step THEN ConcSmall ELSE ConcBig

\* os.path.exists(p), os.path.getsize(p)
ConcExists(p) == \E f \in files : f[1] = p
ConcSize(p) == (CHOOSE f \in files : f[1] = p)[3]
\* the files after thread t created or replaced the file at p, and after the
\* files at the paths P were removed
ConcWritten(p, t, s) == {f \in files : f[1] # p} \cup {<<p, t, s>>}
ConcRemoved(P) == {f \in files : f[1] \notin P}
\* thread t operates on a file, at one of the paths P, that the other call created
ConcTouches(t, P) == \E f \in files : f[1] \in P /\ f[2] # t

\* the paths of a sequence of paths
ConcRange(s) == {s[i] : i \in 1..Len(s)}

\* the caller invokes resize_image or resize_pdf on thread t
ConcCall(t) ==
    /\ calls[t].pc = "idle"
    /\ \E f \in {"resize_image", "resize_pdf"}, o \in ConcOutputPaths,
          k \in TargetSet \ {0}, b \in BOOLEAN, s \in ConcSteps :
          /\ \A u \in Threads \ {t} : calls[u].output_path # o
          /\ (f = "resize_image" \/ b) => s = QLow
          /\ calls' = [calls EXCEPT ![t] =
                         [@ EXCEPT !.pc = IF f = "resize_image" THEN "img" ELSE "jpg_save",
                                   !.fn = f, !.output_path = o, !.target_kb = k,
                                   !.fits = b, !.step = s, !.jpg_ret = "p1"]]
    /\ UNCHANGED <<onecall, shellvars, files, foreign>>

\* resize_image: the descent works in memory; its one file operation is the
\* write of lines 171-172, made when an encoding fits
ConcResizeImage(t) ==
    LET c == calls[t]
    IN /\ c.pc = "img"
       /\ IF c.fits
            THEN /\ files' = ConcWritten(c.output_path, t, ConcSmall)
                 /\ foreign' = (foreign \/ ConcTouches(t, {c.output_path}))
                 /\ calls' = [calls EXCEPT ![t] = [@ EXCEPT !.pc = "done", !.result = "True"]]
            ELSE /\ calls' = [calls EXCEPT ![t] = [@ EXCEPT !.pc = "done", !.result = "False"]]
                 /\ UNCHANGED <<files, foreign>>
       /\ UNCHANGED <<onecall, shellvars>>

\* _get_compressed_jpeg_bytes: pix.save(temp_filename, ...)
ConcJpegSave(t) ==
    LET c == calls[t]
    IN /\ c.pc = "jpg_save"
       /\ files' = ConcWritten(ConcJpegPath(t), t, ConcSmall)
       /\ foreign' = (foreign \/ ConcTouches(t, {ConcJpegPath(t)}))
       /\ calls' = [calls EXCEPT ![t] = [@ EXCEPT !.pc = "jpg_finally"]]
       /\ UNCHANGED <<onecall, shellvars>>

\* _get_compressed_jpeg_bytes: the read and the os.remove of the finally clause
ConcJpegFinally(t) ==
    LET c == calls[t]
    IN /\ c.pc = "jpg_finally"
       /\ files' = ConcRemoved({ConcJpegPath(t)})
       /\ foreign' = (foreign \/ ConcTouches(t, {ConcJpegPath(t)}))
       /\ calls' = [calls EXCEPT ![t] =
                      [@ EXCEPT !.pc = IF c.jpg_ret = "p1" THEN "p1_save" ELSE "rz_save",
                                !.jpg_ret = "none"]]
       /\ UNCHANGED <<onecall, shellvars>>

\* resize_pdf: doc.save(output_path, ...)
ConcPass1Save(t) ==
    LET c == calls[t]
    IN /\ c.pc = "p1_save"
       /\ files' = ConcWritten(c.output_path, t, IF c.fits THEN ConcSmall ELSE ConcBig)
       /\ foreign' = (foreign \/ ConcTouches(t, {c.output_path}))
       /\ calls' = [calls EXCEPT ![t] = [@ EXCEPT !.pc = "p1_measure"]]
       /\ UNCHANGED <<onecall, shellvars>>

\* resize_pdf: os.path.getsize(output_path), which raises when the file is
\* gone, and the test of line 235
ConcPass1Measure(t) ==
    LET c == calls[t]
    IN /\ c.pc = "p1_measure"
       /\ foreign' = (foreign \/ ConcTouches(t, {c.output_path}))
       /\ IF ~ConcExists(c.output_path)
            THEN calls' = [calls EXCEPT ![t] = [@ EXCEPT !.pc = "pdf_except"]]
            ELSE IF Pass1Fits(ConcSize(c.output_path), c.target_kb)
              THEN calls' = [calls EXCEPT ![t] = [@ EXCEPT !.pc = "done", !.result = "True"]]
              ELSE calls' = [calls EXCEPT ![t] = [@ EXCEPT !.pc = "p1_remove"]]
       /\ UNCHANGED <<onecall, shellvars, files>>

\* resize_pdf: if os.path.exists(output_path): os.remove(output_path); then the
\* first lines of _rasterize_to_target (56-61)
ConcPass1Remove(t) ==
    LET c == calls[t]
    IN /\ c.pc = "p1_remove"
       /\ files' = ConcRemoved({c.output_path})
       /\ foreign' = (foreign \/ ConcTouches(t, {c.output_path}))
       /\ calls' = [calls EXCEPT ![t] =
                      [@ EXCEPT !.pc = "rz_loop", !.low = QLow, !.high = QHigh,
                                !.best_size = INF, !.best_file_to_keep = None,
                                !.tested_temp_files = << >>,
                                !.doc_original_open = TRUE]]
       /\ UNCHANGED <<onecall, shellvars>>

\* _rasterize_to_target: while low <= high: mid = ...; temp_path = ...;
\* tested_temp_files.append(temp_path); after the loop doc_original.close() and
\* the test of line 107
ConcRzLoop(t) ==
    LET c == calls[t]
        m == Mid(c.low, c.high)
    IN /\ c.pc = "rz_loop"
       /\ calls' = [calls EXCEPT ![t] =
             IF LoopCond(c.low, c.high)
               THEN [c EXCEPT !.pc = "jpg_save", !.jpg_ret = "rz", !.mid = m,
                              !.tested_temp_files =
                                  Append(@, ConcTempPath(c.output_path, m))]
               ELSE IF c.best_file_to_keep # None
                 THEN [c EXCEPT !.pc = "rz_cleanup", !.doc_original_open = FALSE]
                 ELSE [c EXCEPT !.pc = "rz_finally", !.doc_original_open = FALSE,
                                !.rz_ret = "False"]]
       /\ UNCHANGED <<onecall, shellvars, files, foreign>>

\* _rasterize_to_target: doc_new.save(temp_path, ...)
ConcRzSave(t) ==
    LET c == calls[t]
        temp_path == ConcTempPath(c.output_path, c.mid)
    IN /\ c.pc = "rz_save"
       /\ files' = ConcWritten(temp_path, t, ConcTrialSize(c, c.mid))
       /\ foreign' = (foreign \/ ConcTouches(t, {temp_path}))
       /\ calls' = [calls EXCEPT ![t] = [@ EXCEPT !.pc = "rz_measure"]]
       /\ UNCHANGED <<onecall, shellvars>>

\* _rasterize_to_target: os.path.getsize(temp_path), which raises when the file
\* is gone, and the if / else of lines 94-102
ConcRzMeasure(t) ==
    LET c == calls[t]
        temp_path == ConcTempPath(c.output_path, c.mid)
        size == ConcSize(temp_path)
    IN /\ c.pc = "rz_measure"
       /\ foreign' = (foreign \/ ConcTouches(t, {temp_path}))
       /\ calls' = [calls EXCEPT ![t] =
             IF ~ConcExists(temp_path)
               THEN [c EXCEPT !.pc = "rz_except"]
               ELSE IF Feasible(size, c.target_kb)
                 THEN IF Closer(size, c.best_size, c.target_kb)
                        THEN [c EXCEPT !.pc = "rz_loop", !.low = NextLow(c.mid),
                                       !.best_size = size,
                                       !.best_file_to_keep = <<temp_path>>]
                        ELSE [c EXCEPT !.pc = "rz_loop", !.low = NextLow(c.mid)]
                 ELSE [c EXCEPT !.pc = "rz_loop", !.high = NextHigh(c.mid)]]
       /\ UNCHANGED <<onecall, shellvars, files>>

\* _rasterize_to_target: the cleanup loop of lines 109-111
ConcRzCleanup(t) ==
    LET c == calls[t]
        others == ConcRange(c.tested_temp_files) \ {c.best_file_to_keep[1]}
    IN /\ c.pc = "rz_cleanup"
       /\ files' = ConcRemoved(others)
       /\ foreign' = (foreign \/ ConcTouches(t, others))
       /\ calls' = [calls EXCEPT ![t] = [@ EXCEPT !.pc = "rz_rename"]]
       /\ UNCHANGED <<onecall, shellvars>>

\* _rasterize_to_target: os.rename(best_file_to_keep, output_path), which
\* raises when the best trial is gone and else replaces what is at output_path
ConcRzRename(t) ==
    LET c == calls[t]
        best == c.best_file_to_keep[1]
        moved == {<<c.output_path, f[2], f[3]>> : f \in {g \in files : g[1] = best}}
    IN /\ c.pc = "rz_rename"
       /\ foreign' = (foreign \/ ConcTouches(t, {best, c.output_path}))
       /\ IF ConcExists(best)
            THEN /\ files' = ConcRemoved({best, c.output_path}) \cup moved
                 /\ calls' = [calls EXCEPT ![t] =
                                [@ EXCEPT !.pc = "rz_finally", !.rz_ret = "True"]]
            ELSE /\ calls' = [calls EXCEPT ![t] = [@ EXCEPT !.pc = "rz_except"]]
                 /\ UNCHANGED files
       /\ UNCHANGED <<onecall, shellvars>>

\* _rasterize_to_target: except Exception: ...; doc_original.close(); return
\* False -- close() raises on the document line 104 has closed already
ConcRzExcept(t) ==
    LET c == calls[t]
    IN /\ c.pc = "rz_except"
       /\ calls' = [calls EXCEPT ![t] =
                      [@ EXCEPT !.pc = "rz_finally", !.doc_original_open = FALSE,
                                !.rz_ret = IF c.doc_original_open THEN "False"
                                                                  ELSE "raise"]]
       /\ UNCHANGED <<onecall, shellvars, files, foreign>>

\* _rasterize_to_target: the finally clause of lines 125-132, then the return
\* to resize_pdf, which returns the same or handles the exception
ConcRzFinally(t) ==
    LET c == calls[t]
        present == {q \in ConcRange(c.tested_temp_files) :
                       ConcExists(q) /\ q # c.output_path}
    IN /\ c.pc = "rz_finally"
       /\ files' = ConcRemoved(present)
       /\ foreign' = (foreign \/ ConcTouches(t, present))
       /\ calls' = [calls EXCEPT ![t] =
                      IF c.rz_ret = "raise"
                        THEN [c EXCEPT !.pc = "pdf_except"]
                        ELSE [c EXCEPT !.pc = "done", !.result = c.rz_ret]]
       /\ UNCHANGED <<onecall, shellvars>>

\* resize_pdf: the handler of lines 248-259
ConcPdfExcept(t) ==
    LET c == calls[t]
    IN /\ c.pc = "pdf_except"
       /\ files' = ConcRemoved({c.output_path})
       /\ foreign' = (foreign \/ ConcTouches(t, {c.output_path}))
       /\ calls' = [calls EXCEPT ![t] = [@ EXCEPT !.pc = "done", !.result = "False"]]
       /\ UNCHANGED <<onecall, shellvars>>

ConcNext ==
    \E t \in Threads :
        \/ ConcCall(t)
        \/ ConcResizeImage(t)
        \/ ConcJpegSave(t)
        \/ ConcJpegFinally(t)
        \/ ConcPass1Save(t)
        \/ ConcPass1Measure(t)
        \/ ConcPass1Remove(t)
        \/ ConcRzLoop(t)
        \/ ConcRzSave(t)
        \/ ConcRzMeasure(t)
        \/ ConcRzCleanup(t)
        \/ ConcRzRename(t)
        \/ ConcRzExcept(t)
        \/ ConcRzFinally(t)
        \/ ConcPdfExcept(t)

ConcSpec == Init /\ [][ConcNext]_vars

\* ------------------------------------------------------------- the UI shell
\* FileResizerApp and ResizerWorker (file_resizer_app.py).  The user clicks
\* Resize, Download and Reset, selects a file (Browse or drop) and switches the
\* file type; every Resize click that passes its checks starts a worker thread,
\* which makes one engine call and emits `finished` to the shell.  The engine
\* call is one step here: it returns True leaving a file at its output path,
\* returns False, or raises.  A source file is known by its base name, the one
\* part of its path the worker's output path depends on.
ShellFiles == {<<n>> : n \in 1..MaxFiles}
FileTypes == {"image", "pdf"}

\* output_path = os.path.join(temp_dir, f"{base_filename}_resized.jpg") / ".pdf";
\* None when file_type is neither "image" nor "pdf"
WorkerOutputPath(file_path, file_type) ==
    IF file_type = "image" THEN Append(file_path, "jpg")
    ELSE IF file_type = "pdf" THEN Append(file_path, "pdf")
    ELSE None

\* str(e), the second argument of finished.emit on the except path
ErrorText == <<0, "error">>

\* except Exception as e: ... self.finished.emit(False, str(e)); return
RunExceptSilent == FALSE
RunExceptEmits == TRUE

\* reset_ui: self.resize_btn.setEnabled(True)
ResetKeepsResizeBtn == FALSE
ResetEnablesResizeBtn == TRUE

\* a worker whose run is over and has emitted finished: its arguments are
\* not read again
Ran(w) ==
    [w EXCEPT !.file_path = None, !.file_type = "none", !.st = "emitted",
              !.emits = @ + 1]

\* the workers whose finished signal the shell has not handled yet
Unhandled == {i \in 1..Len(workers) : workers[i].st # "handled"}

\* clean_temp_file: if self.resized_file_path and os.path.exists(...): try:
\* os.remove(...) except Exception: print(...); then self.resized_file_path =
\* None.  The conjunct for out_files, clean_failed and resized_file_path of
\* every handler that calls it.
CleanTempFile ==
    /\ resized_file_path' = None
    /\ \/ /\ out_files' = out_files \ {resized_file_path}
          /\ UNCHANGED clean_failed
       \/ /\ resized_file_path \in out_files
          /\ clean_failed' = TRUE
          /\ UNCHANGED out_files

\* resize_file, the slot of the Resize button; a disabled button emits no click.
\* int(self.target_input.text()) raises ValueError on the text the user typed, or
\* does not.
ResizeFile ==
    /\ alive /\ resize_btn
    /\ IF current_file_path = None
         THEN UNCHANGED <<resized_file_path, resize_btn, download_btn, workers,
                          out_files, clean_failed>>
         ELSE /\ download_btn' = FALSE
              /\ CleanTempFile
              /\ \/ /\ resize_btn' = TRUE
                    /\ UNCHANGED workers
                 \/ /\ Len(workers) < MaxWorkers
                    /\ resize_btn' = FALSE
                    /\ workers' = Append(workers,
                                         [file_path |-> current_file_path,
                                          file_type |-> current_file_type,
                                          st |-> "running", path |-> "none",
                                          emits |-> 0])
    /\ UNCHANGED <<onecall, concvars, current_file_path, current_file_type, signals, alive>>

\* ResizerWorker.run of the i-th worker: the engine call and the one emit
WorkerRun(i) ==
    /\ alive
    /\ i \in 1..Len(workers)
    /\ workers[i].st = "running"
    /\ LET w == workers[i]
           output_path_ == WorkerOutputPath(w.file_path, w.file_type)
       IN IF w.file_type \in FileTypes
            THEN \/ \* the engine returns True: a file is at output_path
                    /\ out_files' = out_files \cup {output_path_}
                    /\ signals' = Append(signals, [w |-> i, success |-> TRUE,
                                                   output |-> output_path_])
                    /\ workers' = [workers EXCEPT ![i] =
                                     [Ran(@) EXCEPT !.path = "true"]]
                 \/ \* the engine returns False: resize_image has written
                    \* nothing, resize_pdf has removed what is at output_path
                    /\ out_files' = IF w.file_type = "pdf"
                                      THEN out_files \ {output_path_} ELSE out_files
                    /\ signals' = Append(signals, [w |-> i, success |-> FALSE,
                                                   output |-> output_path_])
                    /\ workers' = [workers EXCEPT ![i] =
                                     [Ran(@) EXCEPT !.path = "false"]]
                 \/ \* the engine call raises
                    /\ UNCHANGED out_files
                    /\ IF RunExceptEmits
                         THEN /\ signals' = Append(signals, [w |-> i, success |-> FALSE,
                                                             output |-> ErrorText])
                              /\ workers' = [workers EXCEPT ![i] =
                                               [Ran(@) EXCEPT !.path = "except"]]
                         ELSE /\ UNCHANGED signals
                              /\ workers' = [workers EXCEPT ![i] =
                                               [Ran(@) EXCEPT !.st = "ended",
                                                              !.path = "except",
                                                              !.emits = 0]]
            ELSE /\ UNCHANGED out_files
                 /\ signals' = Append(signals, [w |-> i, success |-> FALSE,
                                                output |-> None])
                 /\ workers' = [workers EXCEPT ![i] =
                                  [Ran(@) EXCEPT !.path = "no_type"]]
    /\ UNCHANGED <<onecall, concvars, current_file_path, resized_file_path,
                   current_file_type, resize_btn, download_btn, alive, clean_failed>>

\* on_resizing_finished(success, output), the slot of the oldest signal
\* waiting in the shell's event queue.  os.path.getsize(output) raises when no
\* file is at output; an exception that leaves a slot ends the process
\* (PyQt6 calls qFatal when no excepthook is installed).
OnResizingFinished ==
    /\ alive
    /\ signals # << >>
    /\ LET s == Head(signals)
       IN /\ resize_btn' = TRUE
          /\ download_btn' = s.success
          /\ IF s.success
               THEN /\ resized_file_path' = s.output
                    /\ alive' = (s.output \in out_files)
               ELSE /\ resized_file_path' = None
                    /\ UNCHANGED alive
          /\ workers' = [workers EXCEPT ![s.w] =
                           [@ EXCEPT !.st = "handled", !.path = "none"]]
    /\ signals' = Tail(signals)
    /\ UNCHANGED <<onecall, concvars, current_file_path, current_file_type, out_files,
                   clean_failed>>

\* download_file, the slot of the Download button: the user cancels the save
\* dialog or shutil.copy raises (nothing changes), or the copy is made and the
\* file cleaned up
DownloadFile ==
    /\ alive /\ download_btn
    /\ IF resized_file_path = None \/ resized_file_path \notin out_files
         THEN UNCHANGED <<resized_file_path, download_btn, out_files, clean_failed>>
         ELSE \/ UNCHANGED <<resized_file_path, download_btn, out_files, clean_failed>>
              \/ /\ CleanTempFile
                 /\ download_btn' = FALSE
    /\ UNCHANGED <<onecall, concvars, current_file_path, current_file_type, resize_btn,
                   workers, signals, alive>>

\* reset_ui, the slot of the Reset button
ResetUi ==
    /\ alive
    /\ CleanTempFile
    /\ current_file_path' = None
    /\ current_file_type' = "image"
    /\ resize_btn' = (ResetEnablesResizeBtn \/ resize_btn)
    /\ download_btn' = FALSE
    /\ UNCHANGED <<onecall, concvars, workers, signals, alive>>

\* handle_file_selected(file_path), from open_file_dialog or dropEvent
HandleFileSelected ==
    /\ alive
    /\ \E f \in ShellFiles : current_file_path' = f
    /\ CleanTempFile
    /\ UNCHANGED <<onecall, concvars, current_file_type, resize_btn, download_btn, workers,
                   signals, alive>>

\* on_file_type_selected(file_type), the slot of the Image and PDF buttons
OnFileTypeSelected ==
    /\ alive
    /\ \E ty \in FileTypes : current_file_type' = ty
    /\ UNCHANGED <<onecall, concvars, current_file_path, resized_file_path, resize_btn,
                   download_btn, workers, signals, out_files, alive, clean_failed>>

ShellNext ==
    \/ ResizeFile
    \/ \E i \in 1..MaxWorkers : WorkerRun(i)
    \/ OnResizingFinished
    \/ DownloadFile
    \/ ResetUi
    \/ HandleFileSelected
    \/ OnFileTypeSelected

ShellSpec == Init /\ [][ShellNext]_vars

\* what happens without the user: a started thread runs, the event loop
\* delivers a queued signal
ShellProgress ==
    \/ \E i \in 1..MaxWorkers : WorkerRun(i)
    \/ OnResizingFinished

\* While a thread can run or a signal waits, one of them makes its step;
\* nothing obliges the user to do anything.
FairShellSpec == Init /\ [][ShellNext]_vars /\ WF_vars(ShellProgress)

\* ------------------------------------------------------------------ claims
Returned == pc = "done"
TargetBytes == target_kb * KB
NoTrialFile == \A q \in QRange : ~Exists(q)

\* the aspect-ratio branch of resize_image is taken (lines 154-158)
AspectApplies ==
    /\ aspect_ratio # None
    /\ aspect_ratio[1] > 0
    /\ aspect_ratio[2] > 0

\* C1: in a call of resize_image in which no operation failed, if some encoding
\* of the descent (quality 95 down to 60 by 5, then 10% shrinks at quality 60)
\* had size <= target_kb, the call returned True; and whenever resize_image
\* returned True the file at output_path holds the last encoding and its size
\* is <= target_kb.
C1_FeasibleDescentSucceeds ==
    (fn = "resize_image" /\ Returned) =>
        /\ (faults = 0 /\ feasible_seen) => result = "True"
        /\ result = "True" =>
              /\ Exists(output_path)
              /\ disk[output_path] = buffer
              /\ disk[output_path] <= TargetBytes

\* the call succeeded in the dimension phase: quality held at 60, sides shrunk
C1_Witness ==
    /\ fn = "resize_image" /\ Returned /\ result = "True"
    /\ faults = 0 /\ feasible_seen
    /\ quality = CoarseFloor /\ shrinks > 0
    /\ disk[output_path] <= TargetBytes

\* C2: whenever resize_pdf returned True, a file exists at output_path and its
\* size is <= target_kb KB, whether Pass 1 saved it or Pass 2 promoted it; a
\* promoted winner no longer exists under its trial path.
C2_TrueMeansOutputFits ==
    (fn = "resize_pdf" /\ Returned /\ result = "True") =>
        /\ Exists(output_path)
        /\ disk[output_path] <= TargetBytes
        /\ rz_called => (best_file_to_keep # None /\ ~Exists(best_file_to_keep[1]))

\* Pass 1 missed the target and Pass 2 promoted a trial document
C2_Witness ==
    /\ fn = "resize_pdf" /\ Returned /\ result = "True"
    /\ rz_called /\ Len(tested_temp_files) > 1
    /\ Exists(output_path) /\ disk[output_path] = best_size

\* C3: if no encoding of the descent of resize_image reached size <= target_kb,
\* the call returned False, it wrote no file at output_path (what was there
\* before is untouched) and no temporary file is on disk.
C3_FloorFails ==
    (fn = "resize_image" /\ Returned /\ ~feasible_seen) =>
        /\ result = "False"
        /\ ~written
        /\ disk[output_path] = pre_out
        /\ NoTrialFile
        /\ jpg_files = 0

\* the whole descent ran, down to a side of zero, with every encoding too big
C3_Witness ==
    /\ fn = "resize_image" /\ Returned /\ result = "False"
    /\ faults = 0 /\ ~feasible_seen
    /\ trials > 8 /\ DimensionGone(cur[1], cur[2])

\* a size profile that is non-decreasing in the quality
Monotone(e) == e[2] <= e[3]
\* q is the greatest quality of [30, 99] whose size under profile e is <= target
IsMaxFeasible(e, q) ==
    /\ ProfileSize(e, q) <= TargetBytes
    /\ \A r \in QRange : r > q => ProfileSize(e, r) > TargetBytes
\* _rasterize_to_target has run its search and is about to leave through finally
SearchOver == pc = "rz_finally"

\* C4 (as claimed): for every non-decreasing size profile that agrees with the
\* sizes measured, the artifact promoted to output_path is the trial encoded at
\* the greatest quality of [30, 99] whose size is <= target_kb.
C4_PromotedIsMaxFeasibleQuality ==
    (SearchOver /\ rz_ret = "True") =>
        \A e \in Profiles :
            (Agrees(e) /\ Monotone(e)) => IsMaxFeasible(e, best_file_to_keep[1])

\* C5: in a search in which no operation failed, for every non-decreasing size
\* profile that agrees with the sizes measured, _rasterize_to_target returns
\* False exactly if the size at quality 30 exceeds target_kb; and whenever it
\* returns False, quality 30 was tested and its trial exceeded target_kb.
C5_FalseIffQuality30TooBig ==
    (SearchOver /\ faults = 0) =>
        /\ \A e \in Profiles :
              (Agrees(e) /\ Monotone(e)) =>
                  (rz_ret = "False" <=> ProfileSize(e, QLow) > TargetBytes)
        /\ rz_ret = "False" =>
              \E m \in measured : m[1] = QLow /\ m[2] > TargetBytes

\* a fault-free search over a non-decreasing profile failed after testing 30
C5_Witness ==
    /\ SearchOver /\ faults = 0 /\ rz_ret = "False"
    /\ \E m \in measured : m[1] = QLow /\ m[2] > TargetBytes
    /\ \E e \in Profiles : Agrees(e) /\ Monotone(e)

\* C6 (as claimed): after any call the files on disk are those of before the
\* call, plus the file at output_path when the call returned True; no trial
\* document and no temp_comp_img file is left.
C6_DiskAsBeforePlusOutput ==
    Returned =>
        /\ NoTrialFile
        /\ jpg_files = 0
        /\ IF result = "True"
             THEN Exists(output_path)
             ELSE disk[output_path] = pre_out

C8_NoExceptionEscapes ==
    /\ result \in {"none", "True", "False"}
    /\ Returned => result \in {"True", "False"}

\* an exception raised in the except handler of _rasterize_to_target (close of
\* a closed document) reached resize_pdf, which returned False
C8_Witness ==
    /\ fn = "resize_pdf" /\ Returned /\ result = "False"
    /\ rz_ret = "raise"

\* the document Pass 1 saved fits the target
Pass1Fit == pass1_size # NoFile /\ pass1_size <= TargetBytes

\* C9: if the document Pass 1 saved has size <= target_kb, Pass 2 never runs:
\* _rasterize_to_target is not called, nothing is rasterized or measured, no
\* trial document exists, and the Pass-1 file stays at output_path.
C9_Pass1FitSkipsPass2 ==
    Pass1Fit =>
        /\ ~rz_called
        /\ pc \notin {"p1_remove", "rz_open", "rz_loop", "rz_page", "rz_insert",
                      "rz_save", "rz_measure", "rz_close", "rz_cleanup",
                      "rz_rename", "rz_except", "rz_finally"}
        /\ measured = {}
        /\ tested_temp_files = << >>
        /\ NoTrialFile
        /\ disk[output_path] = pass1_size
        /\ Returned => result = "True"

\* Pass 1 alone met the target
C9_Witness ==
    /\ fn = "resize_pdf" /\ Returned /\ result = "True"
    /\ Pass1Fit /\ ~rz_called

\* Python's round(n / d) for n >= 0, d > 0: to nearest, ties to even
Round(n, d) ==
    LET q == n \div d
        r == n % d
    IN IF 2 * r < d THEN q
       ELSE IF 2 * r > d THEN q + 1
       ELSE IF q % 2 = 0 THEN q ELSE q + 1

\* x after n reductions to int(0.9 * x)
RECURSIVE TimesShrunk(_, _)
TimesShrunk(x, n) == IF n = 0 THEN x ELSE TimesShrunk((x * 9) \div 10, n - 1)

Winner ==
    /\ disk[output_path] <= TargetBytes
    /\ \/ result = "True"
       \/ pc = "rz_finally" /\ rz_ret = "True"
       \/ pc = "p1_measure" /\ disk[output_path] = pass1_size

\* the document Pass 1 saved is at output_path: until line 243 or the handler
\* of line 253 removes it, and after the call when that os.remove failed
Pass1FilePending ==
    /\ fn = "resize_pdf"
    /\ disk[output_path] = pass1_size
    /\ \/ pc \in {"p1_measure", "p1_remove", "pdf_except"}
       \/ Returned /\ result = "False" /\ rm_failed

\* a write or a save that failed left a truncated file at output_path
TruncatedByFailedWrite ==
    /\ disk[output_path] = 0
    /\ faults > 0
    /\ result # "True"
    /\ pc \in {"img_except", "pdf_except", "done"}

\* C12 (as claimed): at every point of a call, output_path holds either no file
\* written by this call or the winning artifact, of size <= target_kb, that the
\* call returns True with.
C12_OutputIsUnwrittenOrWinner ==
    (written /\ Exists(output_path)) => Winner

\* C12 (amended): at every point of a call, a file this call wrote at
\* output_path is the winning artifact, or the document Pass 1 saved (whatever
\* its size, until it is removed), or a file truncated by a failed write; while
\* _rasterize_to_target runs, output_path holds nothing until the best trial is
\* renamed onto it, so a trial that is not the best never occupies output_path.
C12_OutputIsWinnerOrPass1OrTruncated ==
    /\ (written /\ Exists(output_path)) =>
          Winner \/ Pass1FilePending \/ TruncatedByFailedWrite
    /\ pc \in {"rz_open", "rz_loop", "rz_page", "rz_insert", "rz_save", "rz_measure",
               "rz_close", "rz_cleanup", "rz_rename", "rz_except"} =>
          ~Exists(output_path)
    /\ (pc = "rz_finally" /\ Exists(output_path)) =>
          (rz_ret = "True" /\ disk[output_path] = best_size)

\* Pass 2 promoted its best trial after testing several
C12_Witness ==
    /\ pc = "rz_finally" /\ rz_ret = "True"
    /\ written /\ Exists(output_path)
    /\ disk[output_path] = best_size
    /\ Len(tested_temp_files) > 2

\* C13 (as claimed): when every encoding of the descent of resize_image exceeds
\* target_kb and no operation fails, the call reaches the quality floor of 10,
\* writes that encoding to output_path and returns True.
C13_UnreachableTargetStillSucceeds ==
    (fn = "resize_image" /\ Returned /\ trials > 0 /\ faults = 0 /\ ~feasible_seen) =>
        /\ result = "True"
        /\ written
        /\ quality <= QualityFloor

\* resize_image alone: the thread that called it runs every statement up to a
\* return (nothing in the loop waits for anything)
ImageNext ==
    \/ CallResizeImage
    \/ ImageOpen
    \/ ImageAspect
    \/ ImageEncode
    \/ ImageCheck
    \/ ImageWrite
    \/ ImageExcept

FairImageSpec == Init /\ [][ImageNext]_vars /\ WF_vars(ImageNext)

\* C14: every call of resize_image returns, for every image size and every
\* target_kb (0 included: no encoding is ever within it): on each loop iteration
\* that does not return, quality, width and height never grow and one of them
\* strictly decreases (the quality by 5, or both sides to int(0.9 * side)).
C14_ResizeImageTerminates ==
    /\ [][(pc = "img_check" /\ pc' = "img_encode") =>
            /\ quality' <= quality
            /\ cur'[1] <= cur[1]
            /\ cur'[2] <= cur[2]
            /\ \/ quality' < quality
               \/ cur'[1] < cur[1] /\ cur'[2] < cur[2]]_vars
    /\ <>Returned

\* a call with target_kb = 0 ran the whole descent and returned
C14_Witness ==
    /\ fn = "resize_image" /\ Returned
    /\ target_kb = 0 /\ faults = 0
    /\ quality = CoarseFloor /\ shrinks > 1

\* the images of the first n pages of the document Pass 1 has open
RECURSIVE ImagesUpTo(_)
ImagesUpTo(n) == IF n = 0 THEN 0 ELSE doc_images[n] + ImagesUpTo(n - 1)

\* Pass 1 is in its image loop, the helper called from it included
InImageLoop ==
    \/ pc \in {"p1_image", "p1_update"}
    \/ pc \in {"jpg_save", "jpg_read", "jpg_finally"} /\ jpg_ret = "p1"

C16_TwoPhaseDescent ==
    /\ []((fn = "resize_image" /\ pc \in {"img_encode", "img_check", "img_write"}) =>
            /\ quality \in {InitialQuality - QualityStep * k : k \in 0..7}
            /\ quality >= CoarseFloor
            /\ shrinks > 0 => quality = CoarseFloor)
    /\ [][pc = "img_check" =>
            /\ quality' <= quality
            /\ cur' # cur =>
                  /\ quality <= CoarseFloor
                  /\ quality' = quality
                  /\ cur' = <<(cur[1] * 9) \div 10, (cur[2] * 9) \div 10>>
            /\ quality' # quality => (cur' = cur /\ shrinks = 0)]_vars

\* the quality went down to 60 and the sides were then shrunk twice
C16_Witness ==
    /\ fn = "resize_image" /\ pc = "img_encode"
    /\ quality = CoarseFloor /\ shrinks = 2
    /\ trials = 9

\* the trials of the search that were within the target
FeasibleTrials == {m \in measured : m[2] <= TargetBytes}

\* C17: after every trial of _rasterize_to_target, if no trial tested so far had
\* size <= target_kb nothing is recorded as best; otherwise the recorded best is
\* one of the trials tested with size <= target_kb, best_size is its size, and
\* no trial tested with size <= target_kb is closer to target_kb; this for the
\* non-decreasing, constant and decreasing size profiles alike.
C17_BestIsClosestFeasibleSoFar ==
    pc # "rz_measure" =>
        IF FeasibleTrials = {}
          THEN best_file_to_keep = None /\ best_size = INF
          ELSE /\ best_file_to_keep # None
               /\ <<best_file_to_keep[1], best_size>> \in FeasibleTrials
               /\ \A m \in FeasibleTrials :
                     Abs(best_size - TargetBytes) <= Abs(m[2] - TargetBytes)

\* a size profile that is not monotonic upwards: a later trial, at a higher
\* quality, was within the target but farther from it, and was not recorded
C17_Witness ==
    /\ pc = "rz_loop"
    /\ best_file_to_keep # None
    /\ \E m \in FeasibleTrials :
          /\ m[1] > best_file_to_keep[1]
          /\ m[2] < best_size

\* C18: every quality _rasterize_to_target tests lies in [30, 99], and no
\* quality is tested twice in one search: the trial paths recorded in
\* tested_temp_files are pairwise distinct.
C18_TrialQualitiesInRangeAndDistinct ==
    /\ \A i \in 1..Len(tested_temp_files) :
          /\ tested_temp_files[i] \in QLow..QHigh
          /\ \A j \in 1..Len(tested_temp_files) :
                i # j => tested_temp_files[i] # tested_temp_files[j]
    /\ pc \in {"rz_page", "rz_insert", "rz_save", "rz_measure"} =>
          (mid \in QLow..QHigh /\ tested_temp_files[Len(tested_temp_files)] = TempPath(mid))

\* a search that went up and down and ended on the seventh trial
C18_Witness ==
    /\ pc = "rz_close"
    /\ Len(tested_temp_files) = 7
    /\ \E i \in 2..7 : tested_temp_files[i] < tested_temp_files[i - 1]

\* C19: the loop of _rasterize_to_target ends whatever the trials measure: each
\* iteration makes high - low strictly smaller, high - low never goes below -1,
\* the loop is left as soon as low > high, and no search makes more than 7
\* trials: after the seventh, low > high.
C19_SearchTerminates ==
    /\ [][pc = "rz_measure" => high' - low' < high - low]_vars
    /\ [][(pc = "rz_loop" /\ low > high) => pc' = "rz_close"]_vars
    /\ [](pc \in {"rz_loop", "rz_page", "rz_insert", "rz_save", "rz_measure"} =>
            high - low >= -1)
    /\ [](Len(tested_temp_files) <= 7)
    /\ []((pc = "rz_loop" /\ Len(tested_temp_files) = 7) => low > high)

\* a search made the seven trials and left the loop with low > high
C19_Witness ==
    /\ pc = "rz_close"
    /\ Len(tested_temp_files) = 7
    /\ low > high

\* _get_compressed_jpeg_bytes is not running: it was not called yet, or it has
\* returned or let its exception go to its caller
HelperNotRunning == pc \notin {"jpg_save", "jpg_read", "jpg_finally"}

RECURSIVE AloneSearch(_, _, _, _)
AloneSearch(c, lo, hi, found) ==
    IF lo > hi THEN found
    ELSE LET m == (lo + hi) \div 2
         IN IF ConcTrialSize(c, m) <= c.target_kb * KB
              THEN AloneSearch(c, m + 1, hi, TRUE)
              ELSE AloneSearch(c, lo, m - 1, found)

\* the result of the call c when it runs alone
AloneResult(c) ==
    IF c.fits \/ (c.fn = "resize_pdf" /\ AloneSearch(c, QLow, QHigh, FALSE))
      THEN "True" ELSE "False"

\* C11 (as claimed): of two calls running concurrently with different output
\* paths, neither overwrites, reads or deletes a file the other created, and
\* each returns what it returns when run alone.
C11_ConcurrentCallsIndependent ==
    /\ ~foreign
    /\ \A t \in Threads :
          calls[t].pc = "done" => calls[t].result = AloneResult(calls[t])

\* the trial files of Pass 2 other than the recorded best candidate
OtherTrialFiles ==
    {q \in QRange : Exists(q)} \ {best_file_to_keep[i] : i \in 1..Len(best_file_to_keep)}

\* C21: in resize_pdf, once _rasterize_to_target is called (Pass 1 missed the
\* target) output_path holds no file until the rename: the Pass-1 document is
\* gone before the first trial document is saved, a trial document is only
\* ever saved at a trial path while output_path is empty, and output_path
\* changes only by the one os.rename of best_file_to_keep, made when every
\* other trial file has been removed.
C21_OutputOnlyByRenameOfBest ==
    /\ [](rz_called => (Exists(output_path) <=> rz_ret = "True"))
    /\ [][(\E q \in QRange : disk'[q] # disk[q] /\ disk'[q] # NoFile) =>
             /\ pc = "rz_save"
             /\ ~Exists(output_path)
             /\ disk'[output_path] = disk[output_path]]_vars
    /\ [][(rz_called /\ disk'[output_path] # disk[output_path]) =>
             /\ pc = "rz_rename"
             /\ ~Exists(output_path)
             /\ best_file_to_keep # None
             /\ disk'[output_path] = disk[best_file_to_keep[1]]
             /\ ~Exists(best_file_to_keep[1])'
             /\ OtherTrialFiles = {}]_vars

\* a file was at output_path before the call, Pass 1 missed the target, and
\* after two trials or more the best one has just been renamed to output_path
C21_Witness ==
    /\ fn = "resize_pdf" /\ pc = "rz_finally" /\ rz_ret = "True"
    /\ pre_out # NoFile
    /\ Len(tested_temp_files) > 1
    /\ Exists(output_path) /\ disk[output_path] = best_size

\* the format the claim gives a call on a source image of format src_format
ClaimedFormat == IF src_format = "PNG" THEN "PNG" ELSE "JPEG"

UserDiscards ==
    \/ DownloadFile /\ ~download_btn'
    \/ ResetUi
    \/ HandleFileSelected

\* C23 (as claimed): in the shell, right after the user has completed a
\* download, pressed Reset or selected a file, when every started worker has
\* finished and its signal has been handled and no os.remove has failed, no
\* output file of a worker is on disk except the one resized_file_path names.
C23_NoOrphanedOutput ==
    [][(UserDiscards /\ ~clean_failed' /\ Unhandled' = {}) =>
          out_files' \subseteq {resized_file_path'}]_vars

\* the workers whose run has not returned yet: their engine call is under way
Running == {i \in 1..Len(workers) : workers[i].st = "running"}

\* C24 (as claimed): in the shell at most one worker is between its start in
\* resize_file and the handling of its result by on_resizing_finished, and no
\* two engine calls run at the same time on the same output path.
C24_AtMostOneWorker ==
    /\ Cardinality(Unhandled) <= 1
    /\ \A i, j \in Running :
          i # j => WorkerOutputPath(workers[i].file_path, workers[i].file_type)
                     # WorkerOutputPath(workers[j].file_path, workers[j].file_type)

====
